---- MODULE Spec2Model ----
(***************************************************************************)
(* A model of lua-hashmap: the shared-memory hashmap core (hm_init,        *)
(* hm_insert, hm_delete, hm_search, hm_stat with the freelist allocator    *)
(* and the open-addressed bucket table) and of the Lua facade that calls   *)
(* it from several processes.                                              *)
(*                                                                         *)
(* The region is one record: the header fields, the used-flags words, the  *)
(* bucket slots, the freelist slots and the bytes of the data arena.  The  *)
(* arena is kept byte by byte, because free-block size prefixes and        *)
(* records are written at arbitrary byte offsets and may overlap.  A byte  *)
(* that is 0 is simply absent from the arena function (the mapping is      *)
(* zero-filled), so equal memories are equal values.                       *)
(*                                                                         *)
(* size_t and uint64_t values read from the arena are kept as their eight  *)
(* little-endian bytes, with 64-bit wrap-around arithmetic.                *)
(***************************************************************************)
EXTENDS Integers, Sequences, FiniteSets, TLC

VARIABLES reg, last, nops, dict, deleted, nospace, rc, pc, cur, lock, vis,
          hnd

vars ==
    <<reg, last, nops, dict, deleted, nospace, rc, pc, cur, lock, vis, hnd>>

(***************************************************************************)
(* Sizes of the C types on the LP64 targets the module builds for.         *)
(***************************************************************************)
SizeofSizeT == 8
SizeofRecordT == 24
SizeofHeaderT == 64
AlignSize == 8
NULL == 0
SIZE_MAX == -1

(***************************************************************************)
(* Bounds of the model.                                                    *)
(***************************************************************************)
InitMemorySize == 192
InitMaxBuckets == 4
MaxOps == 4
MaxOpsReclaim == 6
MaxOpsMP == 4
MaxOpsOverlap == 6
MaxValueRead == 32
FillMemorySize == 240
FillMaxFreeBlocks == 3
MaxOpsFill == 5
ExhaustMemorySize == 208
ExhaustMaxFreeBlocks == 1
MaxOpsExhaust == 5
MaxCalls == 5
MaxOpsLock == 4
MaxSizingMemory == 1030
MaxSizingBuckets == 2
MaxSizingFreeBlocks == 1
MaxSizingKv == 1
FlagsMemorySize == 424
FlagsMaxBuckets == 32
FlagsMaxFreeBlocks == 3
MaxOpsFlags == 5
TombMemorySize == 192
TombMaxBuckets == 2
TombMaxFreeBlocks == 2
MaxOpsTomb == 6

(***************************************************************************)
(* 64-bit unsigned values as eight little-endian bytes.                    *)
(***************************************************************************)
U64(n) ==
    [i \in 1..8 |->
        IF i = 1 THEN n % 256
        ELSE IF i = 2 THEN (n \div 256) % 256
        ELSE IF i = 3 THEN (n \div 65536) % 256
        ELSE IF i = 4 THEN (n \div 16777216) % 256
        ELSE 0]

IsSmall(u) == u[4] < 128 /\ \A i \in 5..8 : u[i] = 0

ToInt(u) == u[1] + 256 * u[2] + 65536 * u[3] + 16777216 * u[4]

AddU64(a, b) ==
    LET c[i \in 0..8] ==
            IF i = 0 THEN 0 ELSE (a[i] + b[i] + c[i - 1]) \div 256
    IN  [i \in 1..8 |-> (a[i] + b[i] + c[i - 1]) % 256]

SubU64(a, b) ==
    LET br[i \in 0..8] ==
            IF i = 0 THEN 0
            ELSE IF a[i] - b[i] - br[i - 1] < 0 THEN 1 ELSE 0
    IN  [i \in 1..8 |-> (a[i] - b[i] - br[i - 1] + 256) % 256]

LtU64(a, b) ==
    \E i \in 1..8 : a[i] < b[i] /\ \A j \in (i + 1)..8 : a[j] = b[j]

(***************************************************************************)
(* The data arena: reads and writes of bytes at region offsets.            *)
(***************************************************************************)
Rd(mem, a) == IF a \in DOMAIN mem THEN mem[a] ELSE 0

RdBytes(mem, a, n) == [i \in 1..n |-> Rd(mem, a + i - 1)]

RdU64(mem, a) == [i \in 1..8 |-> Rd(mem, a + i - 1)]

WrBytes(mem, a, bs) ==
    LET rng == a..(a + Len(bs) - 1)
        nz  == {x \in rng : bs[x - a + 1] # 0}
    IN  [x \in (DOMAIN mem \ rng) \cup nz |->
            IF x \in rng THEN bs[x - a + 1] ELSE mem[x]]

EmptyMem == <<>>

(***************************************************************************)
(* Records.                                                                *)
(***************************************************************************)
hm_get_record_key(r) == r + SizeofRecordT

\* The value pointer without the byte of the key's terminator.
hm_get_record_value_unterminated(mem, r) ==
    hm_get_record_key(r) + ToInt(RdU64(mem, r + 8))

hm_get_record_value(mem, r) ==
    hm_get_record_key(r) + ToInt(RdU64(mem, r + 8)) + 1

hm_get_record_size(mem, r) ==
    AddU64(AddU64(AddU64(U64(SizeofRecordT), RdU64(mem, r + 8)),
                  RdU64(mem, r + 16)), U64(2))

(***************************************************************************)
(* Layout.                                                                 *)
(***************************************************************************)
\* The size_t arguments and results of the layout computation are kept as
\* the integer of least absolute value that is congruent to them modulo
\* 2^64, so SIZE_MAX is -1 and a negative number stands for a size of 2^63
\* or more.  Sums, differences and products are then the 64-bit ones, and
\* an int32_t field holds the same integer.  a < b on size_t:
LtSizeT(a, b) == IF (a < 0) = (b < 0) THEN a < b ELSE b < 0

\* (size + 7) & ~7, with the wrap of the sum.
get_aligned_size(size) ==
    ((size + AlignSize - 1) \div AlignSize) * AlignSize

hm_calc_required_memory_size(memory_size, max_buckets, max_free_blocks, record_kv_size) ==
    IF max_buckets = 0 /\ memory_size = 0
    THEN [err |-> "HM_MEMORY_SIZE_TOO_SMALL"]
    ELSE
    LET mb  == IF max_buckets = 0
               THEN (memory_size \div 4) \div 8 ELSE max_buckets
        mfb == IF max_free_blocks = 0 THEN mb ELSE max_free_blocks
        max_bucket_flags  == (mb + 63) \div 64
        bucket_flags_size == max_bucket_flags * 8
        buckets_size      == mb * SizeofSizeT
        free_blocks_size  == mfb * SizeofSizeT
        fixed == SizeofHeaderT + bucket_flags_size + buckets_size
                 + free_blocks_size
        record_header_size == SizeofRecordT + 2
        rs1 == IF record_kv_size # 0
               THEN record_header_size + record_kv_size ELSE 0
        ds1 == IF record_kv_size # 0 THEN rs1 * mb ELSE 0
        ms1 == fixed + ds1
        ds2 == IF memory_size # 0
               THEN (IF LtSizeT(ms1, memory_size) THEN memory_size - ms1
                     ELSE 0)
               ELSE ds1
        rs2 == IF memory_size # 0
               THEN (IF LtSizeT(ms1, memory_size)
                     THEN (memory_size - ms1) \div record_header_size
                     ELSE 0)
               ELSE rs1
    IN  [err |-> "HM_OK",
         memory_size |-> get_aligned_size(ms1),
         max_bucket_flags |-> max_bucket_flags,
         max_buckets |-> mb,
         max_free_blocks |-> mfb,
         bucket_flags_size |-> bucket_flags_size,
         buckets_size |-> buckets_size,
         free_blocks_size |-> free_blocks_size,
         header_size |-> SizeofHeaderT,
         data_size |-> ds2,
         record_header_size |-> record_header_size,
         record_size |-> rs2]

hm_init(memory_size, max_buckets, max_free_blocks) ==
    LET msz == get_aligned_size(memory_size)
        s   == hm_calc_required_memory_size(msz, max_buckets,
                                            max_free_blocks, 0)
    IN  IF s.err # "HM_OK" \/ LtSizeT(msz, s.memory_size)
        THEN [err |-> "HM_MEMORY_SIZE_TOO_SMALL"]
        ELSE IF msz < 0
        THEN \* mmap of 2^63 bytes or more
             [err |-> "HM_MAP_FAILED"]
        ELSE
        LET bfo == SizeofHeaderT
            bo  == bfo + s.bucket_flags_size
            fo  == bo + s.buckets_size
            do  == fo + s.free_blocks_size
        IN  [err |-> "HM_OK",
             reg |->
               [hdr |-> [memory_size |-> msz,
                         max_bucket_flags |-> s.max_bucket_flags,
                         max_buckets |-> s.max_buckets,
                         max_free_blocks |-> s.max_free_blocks,
                         num_free_blocks |-> 0,
                         bucket_flags_offset |-> bfo,
                         buckets_offset |-> bo,
                         freelist_offset |-> fo,
                         data_offset |-> do,
                         data_tail |-> do],
                bucket_flags |->
                    [w \in 0..(s.max_bucket_flags - 1) |-> {}],
                buckets  |-> [b \in 0..(s.max_buckets - 1) |-> 0],
                freelist |-> [f \in 0..(s.max_free_blocks - 1) |-> 0],
                mem |-> EmptyMem]]

(***************************************************************************)
(* Freelist allocator.                                                     *)
(***************************************************************************)
has_empty_free_block(rg) ==
    rg.hdr.num_free_blocks < rg.hdr.max_free_blocks

RECURSIVE add_free_block_search(_, _, _, _)
add_free_block_search(rg, left, right, size) ==
    IF left > right THEN left
    ELSE LET mid        == (left + right) \div 2
             block_size == RdU64(rg.mem, rg.freelist[mid])
         IN  IF LtU64(block_size, size)
             THEN add_free_block_search(rg, mid + 1, right, size)
             ELSE add_free_block_search(rg, left, mid - 1, size)

RECURSIVE add_free_block_sort(_, _, _, _, _, _)
add_free_block_sort(mem, freelist, offset, size, i, n) ==
    IF i < n /\ LtU64(RdU64(mem, freelist[i + 1]), size)
    THEN add_free_block_sort(
             mem,
             [freelist EXCEPT ![i] = freelist[i + 1], ![i + 1] = offset],
             offset, size, i + 1, n)
    ELSE freelist

\* size is the 64-bit value the caller passes; the stored size is size + 8.
add_free_block(rg, offset, size0) ==
    LET size == AddU64(size0, U64(SizeofSizeT))
        num  == rg.hdr.num_free_blocks
        left == IF num > 0
                THEN add_free_block_search(rg, 0, num - 1, size)
                ELSE 0
    IN  IF num > 0 /\ AddU64(U64(offset), size) = U64(rg.freelist[left])
        THEN \* merge with existing element
             LET msize == AddU64(size, RdU64(rg.mem, rg.freelist[left]))
                 fl1   == [rg.freelist EXCEPT ![left] = offset]
                 mem1  == WrBytes(rg.mem, offset, msize)
             IN  [rg EXCEPT
                    !.freelist = add_free_block_sort(mem1, fl1, offset,
                                                     msize, left, num - 1),
                    !.mem = mem1]
        ELSE LET fl1 == [j \in DOMAIN rg.freelist |->
                            IF j = left THEN offset
                            ELSE IF j > left /\ j <= num
                                 THEN rg.freelist[j - 1]
                                 ELSE rg.freelist[j]]
             IN  [rg EXCEPT
                    !.freelist = fl1,
                    !.mem = WrBytes(rg.mem, offset, size),
                    !.hdr.num_free_blocks = num + 1]

remove_free_block(rg, idx) ==
    LET n == rg.hdr.num_free_blocks - 1
    IN  [rg EXCEPT
           !.freelist = [j \in DOMAIN rg.freelist |->
                            IF j >= idx /\ j < n
                            THEN rg.freelist[j + 1] ELSE rg.freelist[j]],
           !.hdr.num_free_blocks = n]

RECURSIVE find_free_block_search(_, _, _, _)
find_free_block_search(rg, left, right, required_space) ==
    IF left > right THEN [hit |-> FALSE, idx |-> left]
    ELSE LET mid        == (left + right) \div 2
             block_size == RdU64(rg.mem, rg.freelist[mid])
         IN  IF block_size = U64(required_space)
             THEN [hit |-> TRUE, idx |-> mid]
             ELSE IF LtU64(U64(required_space), block_size)
             THEN find_free_block_search(rg, left, mid - 1, required_space)
             ELSE find_free_block_search(rg, mid + 1, right, required_space)

find_free_block(rg, required_space) ==
    IF rg.hdr.num_free_blocks = 0
    THEN [reg |-> rg, offset |-> SIZE_MAX]
    ELSE
    LET s == find_free_block_search(rg, 0, rg.hdr.num_free_blocks - 1,
                                    required_space)
    IN  IF s.hit
        THEN [reg |-> remove_free_block(rg, s.idx),
              offset |-> rg.freelist[s.idx]]
        ELSE IF s.idx < rg.hdr.num_free_blocks
        THEN LET offset         == rg.freelist[s.idx]
                 block_size     == RdU64(rg.mem, offset)
                 remaining_size == SubU64(block_size, U64(required_space))
             IN  IF remaining_size = U64(0)
                 THEN [reg |-> remove_free_block(rg, s.idx),
                       offset |-> offset]
                 ELSE IF LtU64(remaining_size, U64(SizeofSizeT))
                         \/ ~has_empty_free_block(rg)
                 THEN [reg |-> rg, offset |-> SIZE_MAX]
                 ELSE [reg |-> add_free_block(
                                  remove_free_block(rg, s.idx),
                                  offset + required_space, remaining_size),
                       offset |-> offset]
        ELSE [reg |-> rg, offset |-> SIZE_MAX]

(***************************************************************************)
(* Bucket table.                                                           *)
(***************************************************************************)
RECURSIVE hash_string_loop(_, _, _)
hash_string_loop(key, i, hash) ==
    IF i > Len(key) \/ key[i] = 0 THEN hash
    ELSE hash_string_loop(key, i + 1, hash * 33 + key[i])

\* djb2; the keys of the model are short enough for the 64-bit hash not to
\* wrap.
hash_string(key) == hash_string_loop(key, 1, 5381)

\* The bits of (uint64_t)(1 << n) for the int constant 1: for n = 31 the
\* int is negative and sign-extends.  n >= 32 is undefined in C and is not
\* reached while max_buckets <= 32.
ShiftMask(n) == IF n < 31 THEN {n} ELSE 31..63

set_used_bits(rg, bucket_index) ==
    [rg EXCEPT !.bucket_flags[bucket_index \div 64] =
                   @ \cup ShiftMask(bucket_index % 64)]

unset_used_bits(rg, bucket_index) ==
    [rg EXCEPT !.bucket_flags[bucket_index \div 64] =
                   @ \ ShiftMask(bucket_index % 64)]

is_used_bucket(rg, bucket_index) ==
    (bucket_index % 64) \in rg.bucket_flags[bucket_index \div 64]

RECURSIVE find_record_loop(_, _, _, _, _)
find_record_loop(rg, key, hash, index, i) ==
    IF i >= rg.hdr.max_buckets
    THEN [r |-> NULL, found_index |-> rg.hdr.max_buckets]
    ELSE LET bucket_index == (index + i) % rg.hdr.max_buckets
             offset       == rg.buckets[bucket_index]
         IN  IF offset = 0
             THEN [r |-> NULL, found_index |-> bucket_index]
             ELSE IF is_used_bucket(rg, bucket_index)
                     /\ RdU64(rg.mem, offset) = U64(hash)
                     /\ RdU64(rg.mem, offset + 8) = U64(Len(key))
                     /\ RdBytes(rg.mem, hm_get_record_key(offset),
                                Len(key)) = key
             THEN [r |-> offset, found_index |-> bucket_index]
             ELSE find_record_loop(rg, key, hash, index, i + 1)

\* find_record with a probe that gives up one slot early.
find_record_short_probe(rg, key) ==
    LET mb    == rg.hdr.max_buckets
        index == hash_string(key) % mb
        f     == find_record_loop(rg, key, hash_string(key), index, 0)
    IN  IF f.found_index # mb /\ (f.found_index - index) % mb = mb - 1
        THEN [r |-> NULL, found_index |-> mb]
        ELSE f

\* find_record with an insertion candidate that is the first slot on the
\* probe path whose used bit is clear, written before or not.
find_record_reuse_deleted(rg, key) ==
    LET mb    == rg.hdr.max_buckets
        index == hash_string(key) % mb
        f     == find_record_loop(rg, key, hash_string(key), index, 0)
        clear == {d \in 0..(mb - 1) :
                     ~is_used_bucket(rg, (index + d) % mb)}
    IN  IF f.r # NULL \/ clear = {} THEN f
        ELSE [r |-> NULL,
              found_index |->
                 (index + (CHOOSE d \in clear : \A e \in clear : d <= e))
                    % mb]

find_record(rg, key) ==
    find_record_loop(rg, key, hash_string(key),
                     hash_string(key) % rg.hdr.max_buckets, 0)

(***************************************************************************)
(* Map operations (the bodies executed under the lock).                    *)
(***************************************************************************)
\* An insert that advances the data tail for every record it places,
\* records placed in a free block included.
hm_insert_advance_on_reuse(rg, key, value) ==
    LET f == find_record(rg, key)
        r == f.r
        bucket_index == f.found_index
        key_len   == Len(key)
        value_len == Len(value)
        required_space == SizeofRecordT + key_len + value_len + 2
    IN  IF r = NULL /\ bucket_index = rg.hdr.max_buckets
        THEN [reg |-> rg, err |-> "HM_NO_EMPTY_BUCKET"]
        ELSE IF r # NULL /\ RdU64(rg.mem, r + 16) = U64(value_len)
        THEN \* update the value in place
             [reg |-> [rg EXCEPT !.mem =
                          WrBytes(rg.mem, hm_get_record_value(rg.mem, r),
                                  value)],
              err |-> "HM_OK"]
        ELSE IF r # NULL /\ ~has_empty_free_block(rg)
        THEN [reg |-> rg, err |-> "HM_NO_EMPTY_FREE_BLOCK"]
        ELSE
        LET rg1 == IF r # NULL
                   THEN add_free_block(rg, r, hm_get_record_size(rg.mem, r))
                   ELSE rg
            available_space == rg1.hdr.memory_size - rg1.hdr.data_tail
            fb == IF available_space < required_space
                  THEN find_free_block(rg1, required_space)
                  ELSE [reg |-> rg1, offset |-> rg1.hdr.data_tail]
            insert_offset == fb.offset
            rg2 == fb.reg
        IN  IF insert_offset = SIZE_MAX
            THEN [reg |-> rg2, err |-> "HM_NO_SPACE"]
            ELSE
            LET rg3 == set_used_bits(
                          [rg2 EXCEPT !.buckets[bucket_index] =
                                          insert_offset],
                          bucket_index)
                m1 == WrBytes(rg3.mem, insert_offset,
                              U64(hash_string(key)))
                m2 == WrBytes(m1, insert_offset + 8, U64(key_len))
                m3 == WrBytes(m2, insert_offset + 16, U64(value_len))
                m4 == WrBytes(m3, hm_get_record_key(insert_offset),
                              key \o <<0>>)
                m5 == WrBytes(m4, hm_get_record_value(m4, insert_offset),
                              value \o <<0>>)
            IN  [reg |-> [rg3 EXCEPT
                            !.mem = m5,
                            !.hdr.data_tail = @ + required_space],
                 err |-> "HM_OK"]

hm_insert(rg, key, value) ==
    LET f == find_record(rg, key)
        r == f.r
        bucket_index == f.found_index
        key_len   == Len(key)
        value_len == Len(value)
        required_space == SizeofRecordT + key_len + value_len + 2
    IN  IF r = NULL /\ bucket_index = rg.hdr.max_buckets
        THEN [reg |-> rg, err |-> "HM_NO_EMPTY_BUCKET"]
        ELSE IF r # NULL /\ RdU64(rg.mem, r + 16) = U64(value_len)
        THEN \* update the value in place
             [reg |-> [rg EXCEPT !.mem =
                          WrBytes(rg.mem, hm_get_record_value(rg.mem, r),
                                  value)],
              err |-> "HM_OK"]
        ELSE IF r # NULL /\ ~has_empty_free_block(rg)
        THEN [reg |-> rg, err |-> "HM_NO_EMPTY_FREE_BLOCK"]
        ELSE
        LET rg1 == IF r # NULL
                   THEN add_free_block(rg, r, hm_get_record_size(rg.mem, r))
                   ELSE rg
            available_space == rg1.hdr.memory_size - rg1.hdr.data_tail
            fb == IF available_space < required_space
                  THEN find_free_block(rg1, required_space)
                  ELSE [reg |-> rg1, offset |-> rg1.hdr.data_tail]
            insert_offset == fb.offset
            rg2 == fb.reg
        IN  IF insert_offset = SIZE_MAX
            THEN [reg |-> rg2, err |-> "HM_NO_SPACE"]
            ELSE
            LET rg3 == set_used_bits(
                          [rg2 EXCEPT !.buckets[bucket_index] =
                                          insert_offset],
                          bucket_index)
                m1 == WrBytes(rg3.mem, insert_offset,
                              U64(hash_string(key)))
                m2 == WrBytes(m1, insert_offset + 8, U64(key_len))
                m3 == WrBytes(m2, insert_offset + 16, U64(value_len))
                m4 == WrBytes(m3, hm_get_record_key(insert_offset),
                              key \o <<0>>)
                m5 == WrBytes(m4, hm_get_record_value(m4, insert_offset),
                              value \o <<0>>)
            IN  [reg |-> [rg3 EXCEPT
                            !.mem = m5,
                            !.hdr.data_tail =
                               IF available_space >= required_space
                               THEN @ + required_space ELSE @],
                 err |-> "HM_OK"]

\* A delete that clears the used bit before it looks at the freelist.
hm_delete_unset_first(rg, key) ==
    LET f == find_record(rg, key)
    IN  IF f.r = NULL
        THEN [reg |-> rg, err |-> "HM_NOT_FOUND"]
        ELSE IF ~has_empty_free_block(rg)
        THEN [reg |-> unset_used_bits(rg, f.found_index),
              err |-> "HM_NO_EMPTY_FREE_BLOCK"]
        ELSE [reg |-> unset_used_bits(
                         add_free_block(rg, f.r,
                                        hm_get_record_size(rg.mem, f.r)),
                         f.found_index),
              err |-> "HM_OK"]

\* A delete that drops the record without a freelist entry when the
\* freelist is full.
hm_delete_leak_when_full(rg, key) ==
    LET f == find_record(rg, key)
    IN  IF f.r = NULL
        THEN [reg |-> rg, err |-> "HM_NOT_FOUND"]
        ELSE IF ~has_empty_free_block(rg)
        THEN [reg |-> unset_used_bits(rg, f.found_index), err |-> "HM_OK"]
        ELSE [reg |-> unset_used_bits(
                         add_free_block(rg, f.r,
                                        hm_get_record_size(rg.mem, f.r)),
                         f.found_index),
              err |-> "HM_OK"]

hm_delete(rg, key) ==
    LET f == find_record(rg, key)
    IN  IF f.r = NULL
        THEN [reg |-> rg, err |-> "HM_NOT_FOUND"]
        ELSE IF ~has_empty_free_block(rg)
        THEN [reg |-> rg, err |-> "HM_NO_EMPTY_FREE_BLOCK"]
        ELSE [reg |-> unset_used_bits(
                         add_free_block(rg, f.r,
                                        hm_get_record_size(rg.mem, f.r)),
                         f.found_index),
              err |-> "HM_OK"]

\* value is the pointer handed out, value_len the 64-bit length field.
hm_search(rg, key) ==
    LET f == find_record(rg, key)
    IN  IF f.r = NULL
        THEN [err |-> "HM_NOT_FOUND", value |-> NULL, value_len |-> U64(0)]
        ELSE [err |-> "HM_OK",
              value |-> hm_get_record_value(rg.mem, f.r),
              value_len |-> RdU64(rg.mem, f.r + 16)]

count_bucket_flags(rg) ==
    LET sum[i \in 0..rg.hdr.max_bucket_flags] ==
            IF i = 0 THEN 0
            ELSE sum[i - 1] + Cardinality(rg.bucket_flags[i - 1])
    IN  sum[rg.hdr.max_bucket_flags]

hm_stat(rg) ==
    [err |-> "HM_OK",
     memory_size |-> rg.hdr.memory_size,
     max_bucket_flags |-> rg.hdr.max_bucket_flags,
     max_buckets |-> rg.hdr.max_buckets,
     max_free_blocks |-> rg.hdr.max_free_blocks,
     bucket_flags_size |-> rg.hdr.max_bucket_flags * 8,
     buckets_size |-> rg.hdr.max_buckets * SizeofSizeT,
     free_blocks_size |-> rg.hdr.max_free_blocks * SizeofSizeT,
     header_size |-> SizeofHeaderT,
     data_size |-> rg.hdr.memory_size - rg.hdr.data_offset,
     record_header_size |-> SizeofRecordT + 2,
     record_size |-> 0,
     used_buckets |-> count_bucket_flags(rg),
     used_free_blocks |-> rg.hdr.num_free_blocks,
     used_data_size |-> rg.hdr.data_tail - rg.hdr.data_offset]


(***************************************************************************)
(* Inputs: keys and values are opaque byte strings.                        *)
(***************************************************************************)
Keys == {<<97>>, <<98>>, <<101>>}

ReclaimKeys == Keys \cup {<<99>>}

ReclaimValue == <<1>>

Values == {<<1>>, <<2>>,
           <<4, 4, 4, 4, 4, 4, 4, 4, 4, 4, 4, 4, 4, 4, 4, 4, 4>>}

OverlapKeys == {<<97>>, <<98>>}

\* A short value, a value one size step longer, and a value two steps longer
\* whose bytes 3..10 are hash_string of key <<98>> and whose bytes 11..17 are
\* the low bytes of a key_size of 1.
OverlapValues == {<<1>>,
                  <<3, 3, 3, 3, 3, 3, 3, 3, 3>>,
                  <<5, 5, 7, 182, 2, 0, 0, 0, 0, 0, 1, 0, 0, 0, 0, 0, 0>>}

\* max_free_blocks arguments hm_init is called with.
FreeBlockLimits == {1, 3}

LuaNil == [t |-> "nil", s |-> <<>>]

NoValue == [t |-> "none", s |-> <<>>]

\* The creator A and a process B that inherited the handle.
Procs == {"A", "B"}

\* A facade call in progress: its arguments, what a get is expected to
\* return, and the pointer, length and bytes hm_search produced.
Call(op, key, v) ==
    [op |-> op, key |-> key, v |-> v, expect |-> NoValue,
     val |-> NULL, vlen |-> U64(0), seen |-> NoValue]

NoCall == Call("none", <<>>, NoValue)

\* What a caller of hm_search observes: the code, the length and the bytes
\* behind the pointer (a length that is not a small number reads nothing
\* here).
SearchView(rg, key) ==
    LET s == hm_search(rg, key)
    IN  IF s.err # "HM_OK" THEN [err |-> s.err]
        ELSE [err |-> "HM_OK",
              value_len |-> s.value_len,
              value |-> IF IsSmall(s.value_len)
                           /\ ToInt(s.value_len) <= MaxValueRead
                        THEN RdBytes(rg.mem, s.value, ToInt(s.value_len))
                        ELSE <<>>]

Footprint(key, value) == SizeofRecordT + Len(key) + Len(value) + 2

(***************************************************************************)
(* The abstract dictionary and the other observers of a run.               *)
(***************************************************************************)
DictInsert(d, key, value, err) ==
    IF err = "HM_OK"
    THEN [k \in DOMAIN d \cup {key} |-> IF k = key THEN value ELSE d[k]]
    ELSE IF err = "HM_NO_SPACE" /\ key \in DOMAIN d
            /\ Len(d[key]) # Len(value)
    THEN [k \in DOMAIN d \ {key} |-> d[k]]
    ELSE d

DictDelete(d, key, err) ==
    IF err = "HM_OK" THEN [k \in DOMAIN d \ {key} |-> d[k]] ELSE d

RcVoid == [ph |-> "void", ks |-> {}, live |-> {}, nk |-> {}, fp |-> 0]

RcInsert(m, key, value, err) ==
    IF m.ph = "fill" /\ err = "HM_OK" /\ key \notin m.ks
       /\ (m.ks = {} \/ m.fp = Footprint(key, value))
    THEN [m EXCEPT !.ks = @ \cup {key}, !.live = @ \cup {key},
                   !.fp = Footprint(key, value)]
    ELSE IF m.ph = "refill" /\ err = "HM_OK" /\ key \notin m.ks \cup m.nk
            /\ m.fp = Footprint(key, value)
    THEN [m EXCEPT !.nk = @ \cup {key}]
    ELSE RcVoid

RcDelete(m, key, err) ==
    IF m.ph \in {"fill", "drain"} /\ err = "HM_OK" /\ key \in m.live
    THEN [m EXCEPT !.live = @ \ {key},
                   !.ph = IF m.live = {key} THEN "refill" ELSE "drain"]
    ELSE RcVoid

(***************************************************************************)
(* The sequential specification: one caller, operations run to completion. *)
(***************************************************************************)
\* The processes of the close protocol: the creator A and two processes
\* that were forked from it and hold a copy of its handle.
HandleProcs == {"A", "B", "C"}

Creator == "A"

\* lhashmap_t as new_lua leaves it in the creator, with the state of the
\* mapping and of the lock object in that process; a process that was not
\* forked yet holds no handle.  unmaps and destroys count the munmap and
\* pthread_rwlock_destroy calls of the process.
NewHandle ==
    [held |-> TRUE, pid |-> Creator, closed |-> 0,
     region |-> "mapped", lockobj |-> "valid",
     unmaps |-> 0, destroys |-> 0, finalized |-> FALSE, alive |-> TRUE]

NoHandle ==
    [held |-> FALSE, pid |-> Creator, closed |-> 0,
     region |-> "unmapped", lockobj |-> "destroyed",
     unmaps |-> 0, destroys |-> 0, finalized |-> FALSE, alive |-> TRUE]

InitHandles == [p \in HandleProcs |-> IF p = Creator THEN NewHandle
                                      ELSE NoHandle]

Init ==
    /\ \E mfb \in FreeBlockLimits :
           reg = hm_init(InitMemorySize, InitMaxBuckets, mfb).reg
    /\ last = [op |-> "init", err |-> "HM_OK"]
    /\ nops = 0
    /\ dict = <<>>
    /\ deleted = {}
    /\ nospace = {}
    /\ rc = [ph |-> "fill", ks |-> {}, live |-> {}, nk |-> {}, fp |-> 0]
    /\ pc = [A |-> "idle", B |-> "idle"]
    /\ cur = [A |-> NoCall, B |-> NoCall]
    /\ lock = [A |-> [writer |-> FALSE, readers |-> 0],
               B |-> [writer |-> FALSE, readers |-> 0]]
    /\ vis = <<>>
    /\ hnd = InitHandles

\* One call of hm_insert and what the observers record of it.
DoInsert(key, value, res, f) ==
    /\ reg' = res.reg
    /\ last' = [op |-> "insert", key |-> key, value |-> value,
                err |-> res.err, hit |-> f.r # NULL,
                same |-> f.r # NULL
                         /\ RdU64(reg.mem, f.r + 16) = U64(Len(value))]
    /\ dict' = DictInsert(dict, key, value, res.err)
    /\ deleted' = IF res.err = "HM_OK" THEN deleted \ {key} ELSE deleted
    /\ nospace' = IF res.err = "HM_OK" THEN nospace \ {key}
                  ELSE IF res.err = "HM_NO_SPACE" /\ f.r # NULL
                  THEN nospace \cup {key}
                  ELSE nospace
    /\ nops' = nops + 1

\* One call of hm_delete and what the observers record of it.
DoDelete(key, res) ==
    /\ reg' = res.reg
    /\ last' = [op |-> "delete", key |-> key, err |-> res.err]
    /\ dict' = DictDelete(dict, key, res.err)
    /\ deleted' = IF res.err = "HM_OK" THEN deleted \cup {key} ELSE deleted
    /\ nops' = nops + 1
    /\ UNCHANGED nospace

Insert(key, value) ==
    /\ nops < MaxOps
    /\ \E res \in {hm_insert(reg, key, value)},
          f \in {find_record(reg, key)} : DoInsert(key, value, res, f)
    /\ UNCHANGED <<rc, pc, cur, lock, vis, hnd>>

Delete(key) ==
    /\ nops < MaxOps
    /\ \E res \in {hm_delete(reg, key)} : DoDelete(key, res)
    /\ UNCHANGED <<rc, pc, cur, lock, vis, hnd>>

Search(key) ==
    /\ last' = [op |-> "search", key |-> key, view |-> SearchView(reg, key)]
    /\ UNCHANGED <<reg, nops, dict, deleted, nospace, rc, pc, cur, lock,
                   vis, hnd>>

Stat ==
    /\ last' = [op |-> "stat", stat |-> hm_stat(reg)]
    /\ UNCHANGED <<reg, nops, dict, deleted, nospace, rc, pc, cur, lock,
                   vis, hnd>>

Next ==
    \/ \E key \in Keys, value \in Values : Insert(key, value)
    \/ \E key \in Keys : Delete(key)
    \/ \E key \in Keys : Search(key)
    \/ Stat

Spec == Init /\ [][Next]_vars

(***************************************************************************)
(* The reclamation specification: records of one footprint only.           *)
(***************************************************************************)
ReclaimInsert(key) ==
    /\ nops < MaxOpsReclaim
    /\ \E res \in {hm_insert(reg, key, ReclaimValue)},
          f \in {find_record(reg, key)} :
           /\ DoInsert(key, ReclaimValue, res, f)
           /\ rc' = RcInsert(rc, key, ReclaimValue, res.err)
    /\ UNCHANGED <<pc, cur, lock, vis, hnd>>

ReclaimDelete(key) ==
    /\ nops < MaxOpsReclaim
    /\ \E res \in {hm_delete(reg, key)} :
           /\ DoDelete(key, res)
           /\ rc' = RcDelete(rc, key, res.err)
    /\ UNCHANGED <<pc, cur, lock, vis, hnd>>

NextReclaim ==
    \/ \E key \in ReclaimKeys : ReclaimInsert(key)
    \/ \E key \in ReclaimKeys : ReclaimDelete(key)

SpecReclaim == Init /\ [][NextReclaim]_vars

(***************************************************************************)
(* The overlap specification: two keys, values of three record sizes, and  *)
(* runs long enough for a record to be written over the head of its        *)
(* neighbour.                                                              *)
(***************************************************************************)
OverlapInsert(key, value) ==
    /\ nops < MaxOpsOverlap
    /\ \E res \in {hm_insert(reg, key, value)},
          f \in {find_record(reg, key)} : DoInsert(key, value, res, f)
    /\ UNCHANGED <<rc, pc, cur, lock, vis, hnd>>

OverlapDelete(key) ==
    /\ nops < MaxOpsOverlap
    /\ \E res \in {hm_delete(reg, key)} : DoDelete(key, res)
    /\ UNCHANGED <<rc, pc, cur, lock, vis, hnd>>

NextOverlap ==
    \/ \E key \in OverlapKeys, value \in OverlapValues :
          OverlapInsert(key, value)
    \/ \E key \in OverlapKeys : OverlapDelete(key)

SpecOverlap == Init /\ [][NextOverlap]_vars

(***************************************************************************)
(* The fill specification: five keys over four buckets and a data area     *)
(* that holds exactly four of the smallest records.                        *)
(***************************************************************************)
FillKeys == {<<97>>, <<98>>, <<99>>, <<100>>, <<101>>}

FillValues == {<<1>>}

InitFill ==
    /\ reg = hm_init(FillMemorySize, InitMaxBuckets, FillMaxFreeBlocks).reg
    /\ last = [op |-> "init", err |-> "HM_OK"]
    /\ nops = 0
    /\ dict = <<>>
    /\ deleted = {}
    /\ nospace = {}
    /\ rc = [ph |-> "fill", ks |-> {}, live |-> {}, nk |-> {}, fp |-> 0]
    /\ pc = [A |-> "idle", B |-> "idle"]
    /\ cur = [A |-> NoCall, B |-> NoCall]
    /\ lock = [A |-> [writer |-> FALSE, readers |-> 0],
               B |-> [writer |-> FALSE, readers |-> 0]]
    /\ vis = <<>>
    /\ hnd = InitHandles

FillInsert(key, value) ==
    /\ nops < MaxOpsFill
    /\ \E res \in {hm_insert(reg, key, value)},
          f \in {find_record(reg, key)} : DoInsert(key, value, res, f)
    /\ UNCHANGED <<rc, pc, cur, lock, vis, hnd>>

FillDelete(key) ==
    /\ nops < MaxOpsFill
    /\ \E res \in {hm_delete(reg, key)} : DoDelete(key, res)
    /\ UNCHANGED <<rc, pc, cur, lock, vis, hnd>>

NextFill ==
    \/ \E key \in FillKeys, value \in FillValues : FillInsert(key, value)
    \/ \E key \in FillKeys : FillDelete(key)

SpecFill == InitFill /\ [][NextFill]_vars

(***************************************************************************)
(* The exhaustion specification: a freelist of one entry and a data area    *)
(* with room at the tail for a third record.                               *)
(***************************************************************************)
ExhaustKeys == {<<97>>, <<98>>}

ExhaustValues == {<<1>>, <<1, 1>>}

InitExhaust ==
    /\ reg = hm_init(ExhaustMemorySize, InitMaxBuckets,
                     ExhaustMaxFreeBlocks).reg
    /\ last = [op |-> "init", err |-> "HM_OK"]
    /\ nops = 0
    /\ dict = <<>>
    /\ deleted = {}
    /\ nospace = {}
    /\ rc = [ph |-> "fill", ks |-> {}, live |-> {}, nk |-> {}, fp |-> 0]
    /\ pc = [A |-> "idle", B |-> "idle"]
    /\ cur = [A |-> NoCall, B |-> NoCall]
    /\ lock = [A |-> [writer |-> FALSE, readers |-> 0],
               B |-> [writer |-> FALSE, readers |-> 0]]
    /\ vis = <<>>
    /\ hnd = InitHandles

ExhaustInsert(key, value) ==
    /\ nops < MaxOpsExhaust
    /\ \E res \in {hm_insert(reg, key, value)},
          f \in {find_record(reg, key)} : DoInsert(key, value, res, f)
    /\ UNCHANGED <<rc, pc, cur, lock, vis, hnd>>

ExhaustDelete(key) ==
    /\ nops < MaxOpsExhaust
    /\ \E res \in {hm_delete(reg, key)} : DoDelete(key, res)
    /\ UNCHANGED <<rc, pc, cur, lock, vis, hnd>>

NextExhaust ==
    \/ \E key \in ExhaustKeys, value \in ExhaustValues :
          ExhaustInsert(key, value)
    \/ \E key \in ExhaustKeys : ExhaustDelete(key)

SpecExhaust == InitExhaust /\ [][NextExhaust]_vars

(***************************************************************************)
(* Properties of the sequential specification.                             *)
(***************************************************************************)
FoundKeys == {K \in Keys : hm_search(reg, K).err = "HM_OK"}

UsedBuckets == {i \in 0..(reg.hdr.max_buckets - 1) : is_used_bucket(reg, i)}

\* The used buckets whose record holds the bytes of key K.
UsedBucketsOf(K) ==
    {i \in UsedBuckets :
        /\ RdU64(reg.mem, reg.buckets[i] + 8) = U64(Len(K))
        /\ RdBytes(reg.mem, reg.buckets[i] + SizeofRecordT, Len(K)) = K}

\* C1: run side by side with the abstract dictionary, search(K) returns OK
\* with exactly the dictionary's bytes and length for every key in the
\* dictionary and NOT_FOUND for every key not in it.
C1_SearchRefinesDict ==
    \A K \in Keys :
        SearchView(reg, K) =
            IF K \in DOMAIN dict
            THEN [err |-> "HM_OK", value_len |-> U64(Len(dict[K])),
                  value |-> dict[K]]
            ELSE [err |-> "HM_NOT_FOUND"]

\* C2: once delete(K) has returned OK, search(K) is NOT_FOUND in every later
\* state until an insert of K returns OK; the delete leaves every bucket
\* offset in place and clears exactly the used bit of the key's bucket.
C2_DeletedStaysAbsent ==
    /\ [](deleted \cap FoundKeys = {})
    /\ [][(nops' # nops /\ last'.op = "delete" /\ last'.err = "HM_OK") =>
            \E i \in {find_record(reg, last'.key).found_index} :
                /\ reg'.buckets = reg.buckets
                /\ reg.buckets[i] # 0
                /\ is_used_bucket(reg, i)
                /\ reg'.bucket_flags =
                     [reg.bucket_flags EXCEPT ![i \div 64] = @ \ {i % 64}]
         ]_vars

\* C6: an insert or delete that returns a code other than OK leaves the
\* whole region unchanged, except an insert that returns NO_SPACE while
\* overwriting an existing key with a value of another size; a delete of a
\* key that search reports NOT_FOUND returns NOT_FOUND and changes nothing.
C6_FailureAtomicity ==
    [][(nops' # nops /\ last'.op \in {"insert", "delete"}) =>
         /\ (/\ last'.err # "HM_OK"
             /\ ~(last'.op = "insert" /\ last'.err = "HM_NO_SPACE"
                  /\ last'.hit /\ ~last'.same))
              => reg' = reg
         /\ (/\ last'.op = "delete"
             /\ hm_search(reg, last'.key).err = "HM_NOT_FOUND")
              => (last'.err = "HM_NOT_FOUND" /\ reg' = reg)
      ]_vars

\* A delete has just been refused because the freelist is full, with the
\* key's record still in place.
C6_Witness ==
    /\ last.op = "delete" /\ last.err = "HM_NO_EMPTY_FREE_BLOCK"
    /\ hm_search(reg, last.key).err = "HM_OK"

\* C7: after an insert of an existing key with another value size has
\* returned NO_SPACE, the key is gone: search(K) is NOT_FOUND and no used
\* bucket counts a record of K, until K is inserted again.
C7_NoSpaceOverwriteDeletes ==
    \A K \in nospace :
        /\ hm_search(reg, K).err = "HM_NOT_FOUND"
        /\ UsedBucketsOf(K) = {}

\* C8: stat.used_buckets equals the number of distinct keys search finds; no
\* two used buckets reference the same record and every used bucket
\* references a record that search finds.
C8_UsedBucketsAreLiveKeys ==
    /\ hm_stat(reg).used_buckets = Cardinality(FoundKeys)
    /\ \A i, j \in UsedBuckets : i # j => reg.buckets[i] # reg.buckets[j]
    /\ \A i \in UsedBuckets :
         \E K \in Keys : find_record(reg, K) =
                            [r |-> reg.buckets[i], found_index |-> i]

C9_SpaceReclamation ==
    [][(/\ nops' # nops
        /\ rc.ph = "refill"
        /\ Cardinality(rc.nk) < Cardinality(rc.ks)
        /\ last'.op = "insert"
        /\ last'.key \notin rc.ks \cup rc.nk
        /\ Footprint(last'.key, last'.value) = rc.fp
        /\ find_record(reg, last'.key).found_index # reg.hdr.max_buckets
        /\ has_empty_free_block(reg))
       => last'.err = "HM_OK"]_vars

(***************************************************************************)
(* The Lua facade called from several processes.                           *)
(*                                                                         *)
(* The region is a MAP_SHARED mapping, so every process that inherited the *)
(* handle reads and writes the same reg.  The pthread_rwlock_t is a member *)
(* of hashmap_t, which lives in the Lua userdata of each process: a        *)
(* process that inherited the handle locks its own copy of the lock.       *)
(* A call is a sequence of steps: acquire the lock, run the body and       *)
(* release the lock, and (get only) decode the bytes behind the pointer    *)
(* hm_search handed out.                                                   *)
(***************************************************************************)
MPKeys == {<<97>>, <<98>>}

LuaValues == {[t |-> "string", s |-> <<120>>],
              [t |-> "string", s |-> <<121, 121, 121, 121, 121, 121, 121,
                                       121, 121>>],
              [t |-> "boolean", s |-> <<1>>]}

T_STRING == 0
T_BOOLEAN == 1
T_NUMBER == 2
T_INTEGER == 3

encode_value(v) ==
    IF v.t = "string" THEN <<T_STRING>> \o v.s
    ELSE <<T_BOOLEAN, IF v.s = <<0>> THEN 0 ELSE 1>>

\* val is the pointer hm_search stored, vlen the length; the bytes are read
\* from the region as it is when decode_value runs.
decode_value(mem, val, vlen) ==
    LET t == Rd(mem, val)
        n == SubU64(vlen, U64(1))
    IN  IF t = T_STRING
        THEN IF IsSmall(n) /\ ToInt(n) <= MaxValueRead
             THEN [t |-> "string", s |-> RdBytes(mem, val + 1, ToInt(n))]
             ELSE [t |-> "fault", s |-> <<>>]
        ELSE IF t = T_BOOLEAN
        THEN [t |-> "boolean",
              s |-> <<IF Rd(mem, val + 1) # 0 THEN 1 ELSE 0>>]
        ELSE IF t \in {T_NUMBER, T_INTEGER}
        THEN [t |-> "number", s |-> RdBytes(mem, val + 1, 8)]
        ELSE [t |-> "nil", s |-> <<>>]

\* The lock object the handle of process p refers to.
HandleLock(p) == p

CanLockForWrite(lk) == ~lk.writer /\ lk.readers = 0

lock_region_for_write(lk) == [lk EXCEPT !.writer = TRUE]

CanLockForRead(lk) == ~lk.writer

lock_region_for_read(lk) == [lk EXCEPT !.readers = @ + 1]

unlock_region(lk) ==
    IF lk.writer THEN [lk EXCEPT !.writer = FALSE]
    ELSE [lk EXCEPT !.readers = @ - 1]

IsWrite(c) == c.op \in {"set", "del"}

\* Process p enters a call: the core function takes the lock.
MPEnter(p, call) ==
    /\ nops < MaxOpsMP
    /\ pc[p] = "idle"
    /\ IF IsWrite(call)
       THEN /\ CanLockForWrite(lock[HandleLock(p)])
            /\ lock' = [lock EXCEPT ![HandleLock(p)] =
                                        lock_region_for_write(@)]
       ELSE /\ CanLockForRead(lock[HandleLock(p)])
            /\ lock' = [lock EXCEPT ![HandleLock(p)] =
                                        lock_region_for_read(@)]
    /\ pc' = [pc EXCEPT ![p] = "locked"]
    /\ cur' = [q \in Procs |->
                 IF q = p
                 THEN [call EXCEPT !.expect =
                                  IF call.op = "get"
                                     /\ call.key \in DOMAIN vis
                                  THEN vis[call.key] ELSE NoValue]
                 ELSE IF IsWrite(call) /\ cur[q].op = "get"
                         /\ cur[q].key = call.key
                 THEN [cur[q] EXCEPT !.expect = NoValue]
                 ELSE cur[q]]
    /\ vis' = IF IsWrite(call)
              THEN [k \in DOMAIN vis \ {call.key} |-> vis[k]]
              ELSE vis
    /\ nops' = nops + 1
    /\ UNCHANGED <<reg, last, dict, deleted, nospace, rc, hnd>>

set_lua(p, key, v) ==
    MPEnter(p, Call("set", key, v))

get_lua(p, key) ==
    MPEnter(p, Call("get", key, NoValue))

del_lua(p, key) ==
    MPEnter(p, Call("del", key, NoValue))

stat_lua(p) ==
    MPEnter(p, Call("stat", <<>>, NoValue))

\* The body of the core function and the release of the lock; every call
\* but a get that found its key returns here.
MPBody(p) ==
    /\ pc[p] = "locked"
    /\ lock' = [lock EXCEPT ![HandleLock(p)] = unlock_region(@)]
    /\ \E c \in {cur[p]} :
         \/ /\ c.op = "set"
            /\ \E res \in {hm_insert(reg, c.key, encode_value(c.v))} :
                 /\ reg' = res.reg
                 /\ last' = [op |-> "set", proc |-> p, key |-> c.key,
                             err |-> res.err, out |-> c.v,
                             expect |-> NoValue]
                 /\ vis' = IF p = "B" /\ res.err = "HM_OK"
                              /\ \A q \in Procs \ {p} :
                                    ~(pc[q] = "locked" /\ IsWrite(cur[q])
                                      /\ cur[q].key = c.key)
                           THEN [k \in DOMAIN vis \cup {c.key} |->
                                    IF k = c.key THEN c.v ELSE vis[k]]
                           ELSE vis
            /\ pc' = [pc EXCEPT ![p] = "idle"]
            /\ UNCHANGED cur
         \/ /\ c.op = "del"
            /\ \E res \in {hm_delete(reg, c.key)} :
                 /\ reg' = res.reg
                 /\ last' = [op |-> "del", proc |-> p, key |-> c.key,
                             err |-> res.err, out |-> NoValue,
                             expect |-> NoValue]
            /\ pc' = [pc EXCEPT ![p] = "idle"]
            /\ UNCHANGED <<cur, vis>>
         \/ /\ c.op = "stat"
            /\ last' = [op |-> "stat", proc |-> p, key |-> c.key,
                        err |-> hm_stat(reg).err, out |-> NoValue,
                        expect |-> NoValue]
            /\ pc' = [pc EXCEPT ![p] = "idle"]
            /\ UNCHANGED <<reg, cur, vis>>
         \/ /\ c.op = "get"
            /\ \E res \in {hm_search(reg, c.key)} :
                 IF res.err = "HM_OK"
                 THEN /\ pc' = [pc EXCEPT ![p] = "decode"]
                      /\ cur' = [cur EXCEPT ![p] =
                                   [c EXCEPT
                                      !.val = res.value,
                                      !.vlen = res.value_len,
                                      !.seen = decode_value(
                                                  reg.mem, res.value,
                                                  res.value_len)]]
                      /\ UNCHANGED last
                 ELSE /\ pc' = [pc EXCEPT ![p] = "idle"]
                      /\ last' = [op |-> "get", proc |-> p, key |-> c.key,
                                  err |-> res.err, out |-> LuaNil,
                                  expect |-> c.expect]
                      /\ UNCHANGED cur
            /\ UNCHANGED <<reg, vis>>
    /\ UNCHANGED <<nops, dict, deleted, nospace, rc, hnd>>

\* get_lua after hm_search has returned HM_OK: decode_value reads the bytes.
MPDecode(p) ==
    /\ pc[p] = "decode"
    /\ last' = [op |-> "get", proc |-> p, key |-> cur[p].key,
                err |-> "HM_OK",
                out |-> decode_value(reg.mem, cur[p].val, cur[p].vlen),
                expect |-> cur[p].expect]
    /\ pc' = [pc EXCEPT ![p] = "idle"]
    /\ UNCHANGED <<reg, cur, lock, vis, nops, dict, deleted, nospace, rc,
                 hnd>>

NextMP ==
    \/ \E p \in Procs, key \in MPKeys, v \in LuaValues : set_lua(p, key, v)
    \/ \E p \in Procs, key \in MPKeys : get_lua(p, key)
    \/ \E p \in Procs, key \in MPKeys : del_lua(p, key)
    \/ \E p \in Procs : stat_lua(p)
    \/ \E p \in Procs : MPBody(p)
    \/ \E p \in Procs : MPDecode(p)

SpecMP == Init /\ [][NextMP]_vars

(***************************************************************************)
(* Properties of the multi-process specification.                          *)
(***************************************************************************)
\* C3: when B's set(K,V) has returned OK, every get(K) that the creator A
\* starts afterwards yields V, until K is written or deleted again.
C3_CrossProcessVisibility ==
    (last.op = "get" /\ last.proc = "A" /\ last.expect # NoValue)
        => last.out = last.expect

\* C4: an insert or delete in one process is never inside its critical
\* section while an insert, delete, search or stat of the other process is
\* inside its critical section.
C4_WriterExclusion ==
    \A p, q \in Procs :
        (p # q /\ pc[p] = "locked" /\ pc[q] = "locked")
            => ~(IsWrite(cur[p]) \/ IsWrite(cur[q]))

\* C5: the pointer and length hm_search produced are consumed while the
\* shared lock is still held, so the bytes the caller decodes are the bytes
\* search located.
C5_ValueReadUnderLock ==
    \A p \in Procs :
        pc[p] = "decode" =>
            /\ lock[HandleLock(p)].readers > 0
            /\ decode_value(reg.mem, cur[p].val, cur[p].vlen) = cur[p].seen

(***************************************************************************)
(* The close specification: close and finalizer calls on the handle in the *)
(* creator and in the processes forked from it.                            *)
(***************************************************************************)
\* The outcomes of hm_destroy on the handle h of a process.  On a mapped
\* region with a valid lock it locks, unmaps, unlocks and destroys the
\* lock.  On a handle that was destroyed before, the lock call is made on a
\* destroyed lock and hdr->memory_size is read through a stale pointer:
\* the call fails with LOCK_FAILED, or the process faults, or (the lock
\* works and the address is mapped again) munmap and
\* pthread_rwlock_destroy run a second time.
hm_destroy(h) ==
    IF h.region = "mapped" /\ h.lockobj = "valid"
    THEN {[err |-> "HM_OK",
           h |-> [h EXCEPT !.region = "unmapped", !.lockobj = "destroyed",
                           !.unmaps = @ + 1, !.destroys = @ + 1]]}
    ELSE {[err |-> "HM_LOCK_FAILED", h |-> h],
          [err |-> "fault", h |-> [h EXCEPT !.alive = FALSE]],
          [err |-> "HM_OK",
           h |-> [h EXCEPT !.unmaps = @ + 1, !.destroys = @ + 1]]}

CanCall(p) ==
    /\ nops < MaxCalls
    /\ hnd[p].held /\ hnd[p].alive

\* fork(): the child gets a copy of the creator's memory, the handle and
\* the mapping as they are at that moment.
Fork(q) ==
    /\ q # Creator
    /\ ~hnd[q].held
    /\ hnd[Creator].alive
    /\ hnd' = [hnd EXCEPT ![q] = [hnd[Creator] EXCEPT !.unmaps = 0,
                                                      !.destroys = 0,
                                                      !.finalized = FALSE]]
    /\ last' = [op |-> "fork", proc |-> q, ret |-> "ok"]
    /\ UNCHANGED <<reg, nops, dict, deleted, nospace, rc, pc, cur, lock, vis>>

\* h:close() in process p (getpid() = p).
close_lua(p) ==
    /\ CanCall(p)
    /\ nops' = nops + 1
    /\ IF p # hnd[p].pid
       THEN /\ last' = [op |-> "close", proc |-> p, ret |-> "EPERM"]
            /\ UNCHANGED hnd
       ELSE IF hnd[p].closed # 0
       THEN /\ last' = [op |-> "close", proc |-> p, ret |-> "true"]
            /\ UNCHANGED hnd
       ELSE \E res \in hm_destroy(hnd[p]) :
               /\ hnd' = [hnd EXCEPT ![p] =
                            IF res.err = "HM_OK"
                            THEN [res.h EXCEPT !.closed = 1]
                            ELSE res.h]
               /\ last' = [op |-> "close", proc |-> p,
                           ret |-> IF res.err = "HM_OK" THEN "true"
                                   ELSE res.err]
    /\ UNCHANGED <<reg, dict, deleted, nospace, rc, pc, cur, lock, vis>>

\* The __gc metamethod of the handle in process p; the collector calls it
\* once for the userdata of a Lua state.  The handle is still reachable
\* from the finalizers of other objects that run after it.
gc_lua(p) ==
    /\ CanCall(p)
    /\ ~hnd[p].finalized
    /\ nops' = nops + 1
    /\ IF hnd[p].closed = 0 /\ p = hnd[p].pid
       THEN \E res \in hm_destroy(hnd[p]) :
               /\ hnd' = [hnd EXCEPT ![p] =
                                     [res.h EXCEPT !.finalized = TRUE]]
               /\ last' = [op |-> "gc", proc |-> p, ret |-> res.err]
       ELSE /\ hnd' = [hnd EXCEPT ![p].finalized = TRUE]
            /\ last' = [op |-> "gc", proc |-> p, ret |-> "skip"]
    /\ UNCHANGED <<reg, dict, deleted, nospace, rc, pc, cur, lock, vis>>

NextClose ==
    \/ \E q \in HandleProcs : Fork(q)
    \/ \E p \in HandleProcs : close_lua(p)
    \/ \E p \in HandleProcs : gc_lua(p)

SpecClose == Init /\ [][NextClose]_vars

\* Without the hnd field that changes in every call of a process:
\* the handle state a call may touch.
HandleState(h) == [pid |-> h.pid, closed |-> h.closed,
                   region |-> h.region, lockobj |-> h.lockobj,
                   unmaps |-> h.unmaps, destroys |-> h.destroys]

\* C14: over any sequence of close and finalizer calls in the creator and
\* in the processes holding a copy of the handle, the region is unmapped
\* and the lock destroyed at most once, and only by the creator; a close
\* from another process returns a permission error and changes neither the
\* region nor the handle; a second close from the creator returns success
\* and destroys nothing; the finalizer destroys only in the creator and
\* only when the handle is not closed.
C14_CloseProtocol ==
    /\ [](\A p \in HandleProcs :
            /\ hnd[p].unmaps <= 1 /\ hnd[p].destroys <= 1
            /\ p # Creator => hnd[p].unmaps = 0 /\ hnd[p].destroys = 0)
    /\ [][/\ (last'.op = "close" /\ nops' # nops
              /\ last'.proc # Creator)
             => last'.ret = "EPERM" /\ hnd' = hnd
          /\ (last'.op = "close" /\ nops' # nops
              /\ last'.proc = Creator /\ hnd[Creator].closed # 0)
             => last'.ret = "true" /\ hnd' = hnd
          /\ (last'.op = "gc" /\ nops' # nops
              /\ HandleState(hnd'[last'.proc])
                    # HandleState(hnd[last'.proc]))
             => last'.proc = Creator /\ hnd[Creator].closed = 0
         ]_vars

(***************************************************************************)
(* The lock specification: two threads of one process call the core        *)
(* functions on the same hashmap_t, so on the same lock object.  A call    *)
(* waits in pthread_rwlock_rdlock/wrlock, runs its body under the lock and *)
(* unlocks on the return path it takes.                                    *)
(***************************************************************************)
LockKeys == {<<97>>}

LockValues == {<<1>>, <<1, 1>>}

\* The lock object of the hashmap_t the threads share.
SharedLock == Creator

\* The result codes of pthread_rwlock_rdlock and pthread_rwlock_wrlock.
LockResults == {"ok", "EAGAIN"}

LockCall(op, key, v) == [op |-> op, key |-> key, v |-> v, held |-> "none"]

IsWriteOp(op) == op \in {"insert", "delete"}

\* The body of a core function between lock and unlock.
LockedBody(rg, c) ==
    IF c.op = "insert" THEN hm_insert(rg, c.key, c.v)
    ELSE IF c.op = "delete" THEN hm_delete(rg, c.key)
    ELSE IF c.op = "search"
    THEN [reg |-> rg, err |-> hm_search(rg, c.key).err]
    ELSE [reg |-> rg, err |-> hm_stat(rg).err]

\* A return path that forgets its unlock_region call.
unlock_calls_leak_no_space(op, err) ==
    IF op = "insert" /\ err = "HM_NO_SPACE" THEN 0 ELSE 1

\* The number of unlock_region calls on the return path of a core function
\* that took the lock: one before every return statement.
unlock_calls(op, err) ==
    IF op = "insert"
    THEN CASE err = "HM_NO_EMPTY_BUCKET" -> 1
           [] err = "HM_NO_EMPTY_FREE_BLOCK" -> 1
           [] err = "HM_NO_SPACE" -> 1
           [] OTHER -> 1
    ELSE IF op = "delete"
    THEN CASE err = "HM_NOT_FOUND" -> 1
           [] err = "HM_NO_EMPTY_FREE_BLOCK" -> 1
           [] OTHER -> 1
    ELSE IF op = "search"
    THEN CASE err = "HM_NOT_FOUND" -> 1
           [] OTHER -> 1
    ELSE 1

RECURSIVE unlock_region_times(_, _)
unlock_region_times(lk, n) ==
    IF n = 0 THEN lk ELSE unlock_region_times(unlock_region(lk), n - 1)

\* Thread p calls a core function and reaches the lock call.
LockEnter(p, op, key, v) ==
    /\ nops < MaxOpsLock
    /\ pc[p] = "idle"
    /\ pc' = [pc EXCEPT ![p] = "waiting"]
    /\ cur' = [cur EXCEPT ![p] = LockCall(op, key, v)]
    /\ nops' = nops + 1
    /\ UNCHANGED <<reg, last, dict, deleted, nospace, rc, lock, vis, hnd>>

\* lock_region_for_write / lock_region_for_read returns the region.
LockAcquire(p) ==
    /\ pc[p] = "waiting"
    /\ IF IsWriteOp(cur[p].op)
       THEN /\ CanLockForWrite(lock[SharedLock])
            /\ lock' = [lock EXCEPT ![SharedLock] = lock_region_for_write(@)]
            /\ cur' = [cur EXCEPT ![p].held = "write"]
       ELSE /\ CanLockForRead(lock[SharedLock])
            /\ lock' = [lock EXCEPT ![SharedLock] = lock_region_for_read(@)]
            /\ cur' = [cur EXCEPT ![p].held = "read"]
    /\ pc' = [pc EXCEPT ![p] = "locked"]
    /\ UNCHANGED <<reg, last, nops, dict, deleted, nospace, rc, vis, hnd>>

\* The lock call returns an error number: the function returns
\* HM_LOCK_FAILED.
LockFail(p) ==
    /\ pc[p] = "waiting"
    /\ \E res \in LockResults \ {"ok"} :
          last' = [op |-> cur[p].op, proc |-> p, key |-> cur[p].key,
                   err |-> "HM_LOCK_FAILED", errno |-> res,
                   held |-> "none", unlocks |-> 0]
    /\ pc' = [pc EXCEPT ![p] = "idle"]
    /\ cur' = [cur EXCEPT ![p] = NoCall]
    /\ UNCHANGED <<reg, nops, dict, deleted, nospace, rc, lock, vis, hnd>>

\* The body, the unlock_region calls of its return path, and the return.
LockReturn(p) ==
    /\ pc[p] = "locked"
    /\ \E res \in {LockedBody(reg, cur[p])} :
          /\ reg' = res.reg
          /\ lock' = [lock EXCEPT ![SharedLock] =
                        unlock_region_times(
                            @, unlock_calls(cur[p].op, res.err))]
          /\ last' = [op |-> cur[p].op, proc |-> p, key |-> cur[p].key,
                      err |-> res.err, errno |-> "ok",
                      held |-> cur[p].held,
                      unlocks |-> unlock_calls(cur[p].op, res.err)]
    /\ pc' = [pc EXCEPT ![p] = "idle"]
    /\ cur' = [cur EXCEPT ![p] = NoCall]
    /\ UNCHANGED <<nops, dict, deleted, nospace, rc, vis, hnd>>

NextLock ==
    \/ \E p \in Procs, key \in LockKeys, v \in LockValues :
          LockEnter(p, "insert", key, v)
    \/ \E p \in Procs, key \in LockKeys :
          LockEnter(p, "delete", key, NoValue)
    \/ \E p \in Procs, key \in LockKeys :
          LockEnter(p, "search", key, NoValue)
    \/ \E p \in Procs : LockEnter(p, "stat", <<>>, NoValue)
    \/ \E p \in Procs : LockAcquire(p)
    \/ \E p \in Procs : LockFail(p)
    \/ \E p \in Procs : LockReturn(p)

SpecLock == Init /\ [][NextLock]_vars

\* The change of pc in a LockReturn(p) step.  LockReturn(p) is enabled
\* exactly when pc[p] = "locked" and is the only step that ends it, so weak
\* fairness of this action and of LockReturn(p) admit the same behaviours
\* of SpecLock: those in which no thread stays in its body for ever.
LockLeave(p) ==
    /\ pc[p] = "locked"
    /\ pc' = [pc EXCEPT ![p] = "idle"]
    /\ UNCHANGED <<reg, last, nops, dict, deleted, nospace, rc, cur, lock,
                   vis, hnd>>

\* A thread that can take the lock takes it, and a thread that holds it
\* runs to its return.
SpecLockFair ==
    /\ SpecLock
    /\ \A p \in Procs : WF_vars(LockAcquire(p)) /\ WF_vars(LockLeave(p))

\* The threads that hold the shared lock in the given mode.
Holders(mode) == {p \in Procs : pc[p] = "locked" /\ cur[p].held = mode}

\* C15: insert and delete hold the lock in exclusive mode and search and
\* stat in shared mode whenever they touch the region; every return path
\* unlocks exactly once, so the lock is held exactly by the calls that are
\* inside their bodies and a waiting call eventually leaves its wait; a
\* call whose lock call fails returns LOCK_FAILED without an unlock and
\* leaves the region as it was.
C15_LockProtocol ==
    /\ [](/\ \A p \in Procs :
               pc[p] = "locked" =>
                  cur[p].held = IF IsWriteOp(cur[p].op) THEN "write"
                                ELSE "read"
          /\ lock[SharedLock].writer <=> Holders("write") # {}
          /\ lock[SharedLock].readers = Cardinality(Holders("read"))
          /\ Cardinality(Holders("write")) <= 1
          /\ Holders("write") # {} => Holders("read") = {})
    /\ [][/\ reg' # reg =>
                \E p \in Holders("write") : pc'[p] = "idle"
          /\ \A p \in Procs :
                (pc[p] = "locked" /\ pc'[p] = "idle") =>
                    /\ last'.proc = p /\ last'.unlocks = 1
                    /\ last'.err # "HM_LOCK_FAILED"
          /\ \A p \in Procs :
                (pc[p] = "waiting" /\ pc'[p] = "idle") =>
                    /\ last'.proc = p /\ last'.err = "HM_LOCK_FAILED"
                    /\ last'.unlocks = 0
                    /\ reg' = reg /\ lock' = lock
         ]_vars
    /\ \A p \in Procs : (pc[p] = "waiting") ~> (pc[p] # "waiting")

\* A call has returned an error code with its one unlock, and now one
\* thread waits for the lock that the other holds in exclusive mode.
C15_Witness ==
    /\ last.op \in {"insert", "delete", "search"}
    /\ last.err \in {"HM_NOT_FOUND", "HM_NO_SPACE", "HM_NO_EMPTY_FREE_BLOCK"}
    /\ last.unlocks = 1
    /\ \E p, q \in Procs :
          /\ pc[p] = "waiting"
          /\ pc[q] = "locked" /\ cur[q].held = "write"

(***************************************************************************)
(* The sizing specification: hm_init and hm_calc_required_memory_size      *)
(* applied to arguments drawn from small sizes and SIZE_MAX (the size_t of *)
(* a -1 passed from Lua).                                                  *)
(***************************************************************************)
SizingMemorySizes == 0..MaxSizingMemory

SizingBuckets == 0..MaxSizingBuckets \cup {SIZE_MAX}

SizingFreeBlocks == 0..MaxSizingFreeBlocks \cup {SIZE_MAX}

SizingKvSizes == 0..MaxSizingKv

\* The hashmap_t before hm_init has mapped a region.
NoRegion ==
    [hdr |-> <<>>, bucket_flags |-> <<>>, buckets |-> <<>>,
     freelist |-> <<>>, mem |-> EmptyMem]

InitSizing ==
    /\ \E ms \in SizingMemorySizes, mb \in SizingBuckets,
          mfb \in SizingFreeBlocks, kv \in SizingKvSizes :
          last = [op |-> "args", memory_size |-> ms, max_buckets |-> mb,
                  max_free_blocks |-> mfb, record_kv_size |-> kv]
    /\ reg = NoRegion
    /\ nops = 0
    /\ dict = <<>>
    /\ deleted = {}
    /\ nospace = {}
    /\ rc = [ph |-> "fill", ks |-> {}, live |-> {}, nk |-> {}, fp |-> 0]
    /\ pc = [A |-> "idle", B |-> "idle"]
    /\ cur = [A |-> NoCall, B |-> NoCall]
    /\ lock = [A |-> [writer |-> FALSE, readers |-> 0],
               B |-> [writer |-> FALSE, readers |-> 0]]
    /\ vis = <<>>
    /\ hnd = InitHandles

\* hm_init on the arguments, followed by hm_stat when it returned OK.
SizingInit ==
    /\ last.op = "args"
    /\ \E res \in {hm_init(last.memory_size, last.max_buckets,
                           last.max_free_blocks)} :
          /\ reg' = IF res.err = "HM_OK" THEN res.reg ELSE reg
          /\ last' = [op |-> "hm_init",
                      memory_size |-> last.memory_size,
                      max_buckets |-> last.max_buckets,
                      max_free_blocks |-> last.max_free_blocks,
                      record_kv_size |-> last.record_kv_size,
                      err |-> res.err,
                      stat |-> IF res.err = "HM_OK" THEN hm_stat(res.reg)
                               ELSE [err |-> res.err]]
    /\ nops' = nops + 1
    /\ UNCHANGED <<dict, deleted, nospace, rc, pc, cur, lock, vis, hnd>>

\* hm_calc_required_memory_size on the arguments.
SizingCalc ==
    /\ last.op = "args"
    /\ last' = [op |-> "calc",
                memory_size |-> last.memory_size,
                max_buckets |-> last.max_buckets,
                max_free_blocks |-> last.max_free_blocks,
                record_kv_size |-> last.record_kv_size,
                err |-> hm_calc_required_memory_size(
                            last.memory_size, last.max_buckets,
                            last.max_free_blocks, last.record_kv_size).err,
                stat |-> hm_calc_required_memory_size(
                            last.memory_size, last.max_buckets,
                            last.max_free_blocks, last.record_kv_size)]
    /\ nops' = nops + 1
    /\ UNCHANGED <<reg, dict, deleted, nospace, rc, pc, cur, lock, vis, hnd>>

NextSizing == SizingInit \/ SizingCalc

SpecSizing == InitSizing /\ [][NextSizing]_vars

\* C16: whenever hm_init(memory_size, 0, 0) returns OK, stat reports
\* max_buckets = (memory_size / 4) / 8 of the memory_size that was passed
\* and max_free_blocks = max_buckets; and a max_free_blocks of 0 with an
\* explicit max_buckets gives max_free_blocks = max_buckets.
C16_SizingDefaults ==
    (last.op = "hm_init" /\ last.err = "HM_OK"
     /\ last.max_free_blocks = 0)
    => /\ last.stat.max_free_blocks = last.stat.max_buckets
       /\ last.max_buckets # 0 => last.stat.max_buckets = last.max_buckets
       /\ last.max_buckets = 0 =>
             last.stat.max_buckets = (last.memory_size \div 4) \div 8

(***************************************************************************)
(* Properties of overwrites, exhaustion and the layout.                    *)
(***************************************************************************)
\* The stored size add_free_block gives the block of the record at r.
FreedBlockSize(rg, r) ==
    AddU64(hm_get_record_size(rg.mem, r), U64(SizeofSizeT))

\* A block of the freelist starts where the block of the record at r ends.
HasAdjacentFreeBlock(rg, r) ==
    \E i \in 0..(rg.hdr.num_free_blocks - 1) :
        U64(rg.freelist[i]) = AddU64(U64(r), FreedBlockSize(rg, r))

\* The bucket i is used and its record holds the bytes of key K.
BucketHoldsKey(rg, i, K) ==
    /\ is_used_bucket(rg, i)
    /\ rg.buckets[i] # 0
    /\ RdU64(rg.mem, rg.buckets[i] + 8) = U64(Len(K))
    /\ RdBytes(rg.mem, rg.buckets[i] + SizeofRecordT, Len(K)) = K

\* C11: an insert of an existing key with a value of another size that
\* returns OK makes search return the new value and keeps the key in the
\* bucket it was found in; when the record is served from the tail
\* num_free_blocks grows by exactly 1, or by 0 when the freed record was
\* merged into an adjacent free block.
C11_DifferentSizeOverwrite ==
    [][(/\ nops' # nops
        /\ last'.op = "insert"
        /\ last'.hit /\ ~last'.same
        /\ last'.err = "HM_OK")
       => LET f == find_record(reg, last'.key)
          IN  /\ SearchView(reg', last'.key) =
                    [err |-> "HM_OK",
                     value_len |-> U64(Len(last'.value)),
                     value |-> last'.value]
              /\ BucketHoldsKey(reg', f.found_index, last'.key)
              /\ reg'.hdr.data_tail # reg.hdr.data_tail =>
                    \/ reg'.hdr.num_free_blocks =
                          reg.hdr.num_free_blocks + 1
                    \/ /\ reg'.hdr.num_free_blocks = reg.hdr.num_free_blocks
                       /\ HasAdjacentFreeBlock(reg, f.r)
      ]_vars

\* The keys of the fill specification that search finds.
FillFoundKeys(rg) == {K \in FillKeys : hm_search(rg, K).err = "HM_OK"}

\* No slot of the bucket table has the offset 0 that ends a probe.
NoZeroSlot(rg) == \A i \in 0..(rg.hdr.max_buckets - 1) : rg.buckets[i] # 0

\* C12: an insert of a key that is not found returns NO_EMPTY_BUCKET exactly
\* when the probe over all slots ends without an insertion candidate, that
\* is when no slot has offset 0, whatever space is left; an insert of a key
\* that is found never returns NO_EMPTY_BUCKET; with as many live keys as
\* buckets an insert of one more key returns NO_EMPTY_BUCKET.
C12_BucketExhaustion ==
    [][(nops' # nops /\ last'.op = "insert")
       => LET f == find_record(reg, last'.key)
          IN  /\ ~last'.hit =>
                   /\ last'.err = "HM_NO_EMPTY_BUCKET"
                         <=> f.found_index = reg.hdr.max_buckets
                   /\ last'.err = "HM_NO_EMPTY_BUCKET" <=> NoZeroSlot(reg)
              /\ last'.hit => last'.err # "HM_NO_EMPTY_BUCKET"
              /\ last'.err = "HM_NO_EMPTY_BUCKET" => reg' = reg
              /\ (/\ Cardinality(FillFoundKeys(reg)) = reg.hdr.max_buckets
                  /\ last'.key \notin FillFoundKeys(reg))
                 => last'.err = "HM_NO_EMPTY_BUCKET"
      ]_vars

\* A fifth key has just been refused with NO_EMPTY_BUCKET while four keys
\* are live, the tail is at the end of the region and the freelist is
\* empty, so that the space check would have failed as well.
C12_Witness ==
    /\ last.op = "insert" /\ last.err = "HM_NO_EMPTY_BUCKET"
    /\ Cardinality(FillFoundKeys(reg)) = 4
    /\ last.key \notin FillFoundKeys(reg)
    /\ reg.hdr.data_tail = reg.hdr.memory_size
    /\ reg.hdr.num_free_blocks = 0

\* The freelist has no entry left.
FreelistFull(rg) == rg.hdr.num_free_blocks = rg.hdr.max_free_blocks

\* C13: with num_free_blocks = max_free_blocks a delete of a key that is
\* found, and an insert of a key that is found with a value of another size,
\* return NO_EMPTY_FREE_BLOCK, change nothing, and search still returns the
\* key with the value it returned before.
C13_FreelistExhaustion ==
    [][(/\ nops' # nops
        /\ FreelistFull(reg)
        /\ \/ last'.op = "delete" /\ find_record(reg, last'.key).r # NULL
           \/ last'.op = "insert" /\ last'.hit /\ ~last'.same)
       => /\ last'.err = "HM_NO_EMPTY_FREE_BLOCK"
          /\ reg' = reg
          /\ SearchView(reg', last'.key).err = "HM_OK"
          /\ SearchView(reg', last'.key) = SearchView(reg, last'.key)
      ]_vars

\* An overwrite with another size has just been refused because the
\* freelist is full, although the tail has room for the new record and a
\* free block starts where the key's record ends.
C13_Witness ==
    /\ last.op = "insert" /\ last.err = "HM_NO_EMPTY_FREE_BLOCK"
    /\ FreelistFull(reg)
    /\ reg.hdr.memory_size - reg.hdr.data_tail
          >= Footprint(last.key, last.value)
    /\ LET r == find_record(reg, last.key).r
       IN  /\ r # NULL
           /\ \E i \in 0..(reg.hdr.num_free_blocks - 1) :
                 U64(reg.freelist[i]) =
                    AddU64(U64(r), hm_get_record_size(reg.mem, r))

\* The fixed overhead hm_calc_required_memory_size reported: header, flags
\* bitmap, bucket slots and freelist.
FixedOverhead(s) ==
    s.header_size + s.bucket_flags_size + s.buckets_size + s.free_blocks_size

\* C17: for every input with record_kv_size > 0,
\* hm_calc_required_memory_size reports record_size = (record header size
\* + 2) + record_kv_size and data_size = record_size * max_buckets, and the
\* reported memory_size is the aligned sum of the fixed overhead and that
\* data_size, whatever memory_size argument was passed.
C17_RecordSizing ==
    (last.op = "calc" /\ last.err = "HM_OK" /\ last.record_kv_size > 0)
    => /\ last.stat.record_size
             = (SizeofRecordT + 2) + last.record_kv_size
       /\ last.stat.data_size
             = last.stat.record_size * last.stat.max_buckets
       /\ last.stat.memory_size
             = get_aligned_size(FixedOverhead(last.stat)
                                + ((SizeofRecordT + 2) + last.record_kv_size)
                                  * last.stat.max_buckets)

\* C18: hm_init returns MEMORY_SIZE_TOO_SMALL exactly when memory_size and
\* max_buckets are both 0 or the aligned memory_size is smaller than the
\* aligned fixed overhead (a max_buckets or max_free_blocks of SIZE_MAX
\* slots is larger than every memory_size); whenever it returns OK,
\* bucket_flags_offset is the header size, the four segments are
\* consecutive with data_offset <= memory_size, max_buckets >= 1,
\* data_tail = data_offset, num_free_blocks = 0, every bucket slot and used
\* bit is 0, and every search returns NOT_FOUND.
C18_InitLayout ==
    last.op = "hm_init" =>
    LET msz == get_aligned_size(last.memory_size)
        s   == hm_calc_required_memory_size(msz, last.max_buckets,
                                            last.max_free_blocks, 0)
        too_small ==
            \/ last.memory_size = 0 /\ last.max_buckets = 0
            \/ last.max_buckets = SIZE_MAX
            \/ last.max_free_blocks = SIZE_MAX
            \/ s.err = "HM_OK" /\ msz < get_aligned_size(FixedOverhead(s))
        h   == reg.hdr
    IN  /\ (last.err = "HM_MEMORY_SIZE_TOO_SMALL") = too_small
        /\ last.err = "HM_OK" =>
              /\ h.bucket_flags_offset = SizeofHeaderT
              /\ h.max_bucket_flags >= 0
              /\ h.max_buckets >= 1
              /\ h.max_free_blocks >= 0
              /\ h.buckets_offset
                    = h.bucket_flags_offset + h.max_bucket_flags * 8
              /\ h.freelist_offset
                    = h.buckets_offset + h.max_buckets * SizeofSizeT
              /\ h.data_offset
                    = h.freelist_offset + h.max_free_blocks * SizeofSizeT
              /\ h.data_offset <= h.memory_size
              /\ h.data_tail = h.data_offset
              /\ h.num_free_blocks = 0
              /\ \A b \in 0..(h.max_buckets - 1) :
                    reg.buckets[b] = 0 /\ ~is_used_bucket(reg, b)
              /\ \A K \in FillKeys : hm_search(reg, K).err = "HM_NOT_FOUND"

(***************************************************************************)
(* Properties of the data area and the freelist.                           *)
(***************************************************************************)
\* The step is an insert that returned OK, did not update the value in
\* place, and found room for the record between the data tail and the end
\* of the region: the record was served from the tail.
ServedFromTail ==
    /\ last'.op = "insert" /\ last'.err = "HM_OK" /\ ~last'.same
    /\ reg.hdr.memory_size - reg.hdr.data_tail
          >= Footprint(last'.key, last'.value)

\* C19: in every reachable state data_offset <= data_tail <= memory_size
\* and 0 <= num_free_blocks <= max_free_blocks; data_tail never decreases,
\* it advances by exactly the record footprint on an insert served from the
\* tail and is unchanged by every other operation, inserts served from the
\* freelist included.
C19_TailAndFreeCount ==
    /\ [](/\ reg.hdr.data_offset <= reg.hdr.data_tail
          /\ reg.hdr.data_tail <= reg.hdr.memory_size
          /\ 0 <= reg.hdr.num_free_blocks
          /\ reg.hdr.num_free_blocks <= reg.hdr.max_free_blocks)
    /\ [][/\ reg'.hdr.data_tail >= reg.hdr.data_tail
          /\ ServedFromTail =>
                reg'.hdr.data_tail
                   = reg.hdr.data_tail + Footprint(last'.key, last'.value)
          /\ ~ServedFromTail => reg'.hdr.data_tail = reg.hdr.data_tail
      ]_vars

\* An insert of a new record size has just been served from the freelist:
\* the tail has no room for the record, and the record lies below the tail
\* without ending at it.
C19_Witness ==
    /\ last.op = "insert" /\ last.err = "HM_OK" /\ ~last.same
    /\ reg.hdr.memory_size - reg.hdr.data_tail
          < Footprint(last.key, last.value)
    /\ reg.hdr.data_tail > reg.hdr.data_offset
    /\ LET r == find_record(reg, last.key).r
       IN  r # NULL /\ r + Footprint(last.key, last.value) < reg.hdr.data_tail

\* C20: in every reachable state the freelist is sorted: for all
\* 0 <= i < j < num_free_blocks the size stored in the first 8 bytes of the
\* block at freelist[i] is <= the size stored at freelist[j].
C20_FreelistSorted ==
    \A i, j \in 0..(reg.hdr.num_free_blocks - 1) :
        i < j =>
           ~LtU64(RdU64(reg.mem, reg.freelist[j]),
                  RdU64(reg.mem, reg.freelist[i]))

(***************************************************************************)
(* Properties of the free blocks, the records and the probe paths.         *)
(***************************************************************************)
\* C21: in every reachable state each freelist entry at an index below
\* num_free_blocks denotes a byte range [offset, offset + stored size)
\* inside the data arena [data_offset, memory_size), the ranges of distinct
\* entries are pairwise disjoint and no two entries have the same offset;
\* and the stored size of the block a delete creates for the freed record
\* does not reach past the end of that record.
C21_FreeBlocksInArena ==
    /\ [](\A i \in 0..(reg.hdr.num_free_blocks - 1) :
             LET o == reg.freelist[i]
                 s == RdU64(reg.mem, o)
             IN  /\ IsSmall(s)
                 /\ reg.hdr.data_offset <= o
                 /\ o + ToInt(s) <= reg.hdr.memory_size
                 /\ \A j \in 0..(reg.hdr.num_free_blocks - 1) :
                       i < j =>
                          LET p == reg.freelist[j]
                              t == RdU64(reg.mem, p)
                          IN  /\ o # p
                              /\ IsSmall(t)
                              /\ o + ToInt(s) <= p \/ p + ToInt(t) <= o)
    /\ [][(/\ last'.op = "delete" /\ last'.err = "HM_OK"
           /\ reg'.hdr.num_free_blocks = reg.hdr.num_free_blocks + 1)
          => LET r == find_record(reg, last'.key).r
             IN  /\ \E i \in 0..(reg'.hdr.num_free_blocks - 1) :
                       reg'.freelist[i] = r
                 /\ ~LtU64(hm_get_record_size(reg.mem, r),
                           RdU64(reg'.mem, r))
      ]_vars

\* C22: in every reachable state each bucket whose used bit is set
\* references a record at an offset other than 0 whose byte range
\* [offset, offset + footprint) lies inside [data_offset, memory_size); the
\* ranges of distinct live records are pairwise disjoint, and disjoint from
\* the range of every free block.
C22_LiveRecordsDisjoint ==
    \A i \in UsedBuckets :
       LET r == reg.buckets[i]
           s == hm_get_record_size(reg.mem, r)
       IN  /\ r # 0
           /\ IsSmall(s)
           /\ reg.hdr.data_offset <= r
           /\ r + ToInt(s) <= reg.hdr.memory_size
           /\ \A j \in UsedBuckets :
                 i < j =>
                    LET q == reg.buckets[j]
                        t == hm_get_record_size(reg.mem, q)
                    IN  /\ IsSmall(t)
                        /\ r + ToInt(s) <= q \/ q + ToInt(t) <= r
           /\ \A f \in 0..(reg.hdr.num_free_blocks - 1) :
                 LET o == reg.freelist[f]
                     b == RdU64(reg.mem, o)
                 IN  /\ IsSmall(b)
                     /\ r + ToInt(s) <= o \/ o + ToInt(b) <= r

\* C23: in every reachable state at most one bucket with its used bit set
\* references a record with a given key (same length and bytes).
C23_KeyUniqueness ==
    \A K \in FillKeys : Cardinality(UsedBucketsOf(K)) <= 1

\* The slots a probe for key K inspects before it reaches bucket i: from
\* the home slot of K up to but excluding i, wrapping at max_buckets.
ProbePath(rg, K, i) ==
    LET mb   == rg.hdr.max_buckets
        home == hash_string(K) % mb
    IN  {(home + d) % mb : d \in 0..(((i - home) % mb) - 1)}

\* The number of slots the loop of find_record inspects for key, counted
\* from probe step i.
RECURSIVE ProbeLength(_, _, _, _)
ProbeLength(rg, key, index, i) ==
    IF i >= rg.hdr.max_buckets THEN 0
    ELSE LET f == find_record_loop(rg, key, hash_string(key), index, i)
             bucket_index == (index + i) % rg.hdr.max_buckets
         IN  IF f.found_index = bucket_index THEN 1
             ELSE 1 + ProbeLength(rg, key, index, i + 1)

\* C24: in every reachable state, for each bucket i whose used bit is set
\* and whose record has key K, every slot on the probe path from the home
\* slot of K up to but excluding i has a non-zero offset; and a probe
\* inspects at most max_buckets slots.
C24_ProbeReachability ==
    \A i \in UsedBuckets :
       \A K \in FillKeys :
          i \in UsedBucketsOf(K) =>
             /\ \A b \in ProbePath(reg, K, i) : reg.buckets[b] # 0
             /\ ProbeLength(reg, K, hash_string(K) % reg.hdr.max_buckets, 0)
                   <= reg.hdr.max_buckets

\* C25: when find_record probes for a key that is not present and passes
\* one or more slots with a non-zero offset and a clear used bit before the
\* probe ends, the insertion candidate it returns is the earliest such slot
\* on the probe path, and the insert that follows writes the offset of the
\* new record into that candidate.
C25_InsertionCandidate ==
    [][LET key  == last'.key
           mb   == reg.hdr.max_buckets
           home == hash_string(key) % mb
           zero == {d \in 0..(mb - 1) : reg.buckets[(home + d) % mb] = 0}
           stop == IF zero = {} THEN mb
                   ELSE CHOOSE d \in zero : \A e \in zero : d <= e
           seen == {d \in 0..(stop - 1) :
                       /\ reg.buckets[(home + d) % mb] # 0
                       /\ ~is_used_bucket(reg, (home + d) % mb)}
           cand == (home + (CHOOSE d \in seen : \A e \in seen : d <= e))
                      % mb
       IN  (/\ last'.op = "insert"
            /\ find_record(reg, key).r = NULL
            /\ seen # {})
           => /\ find_record(reg, key).found_index = cand
              /\ last'.err = "HM_OK" =>
                    /\ is_used_bucket(reg', cand)
                    /\ BucketHoldsKey(reg', cand, key)
      ]_vars

(***************************************************************************)
(* The flags specification: a table of 32 buckets, so that one flags word  *)
(* holds a used bit with index 31, and keys whose home slots are 30, 31    *)
(* and 0.                                                                  *)
(***************************************************************************)
FlagsKeys == {<<121>>, <<122>>, <<123>>}

FlagsValues == {<<1>>}

InitFlags ==
    /\ reg = hm_init(FlagsMemorySize, FlagsMaxBuckets,
                     FlagsMaxFreeBlocks).reg
    /\ last = [op |-> "init", err |-> "HM_OK"]
    /\ nops = 0
    /\ dict = <<>>
    /\ deleted = {}
    /\ nospace = {}
    /\ rc = [ph |-> "fill", ks |-> {}, live |-> {}, nk |-> {}, fp |-> 0]
    /\ pc = [A |-> "idle", B |-> "idle"]
    /\ cur = [A |-> NoCall, B |-> NoCall]
    /\ lock = [A |-> [writer |-> FALSE, readers |-> 0],
               B |-> [writer |-> FALSE, readers |-> 0]]
    /\ vis = <<>>
    /\ hnd = InitHandles

FlagsInsert(key, value) ==
    /\ nops < MaxOpsFlags
    /\ \E res \in {hm_insert(reg, key, value)},
          f \in {find_record(reg, key)} : DoInsert(key, value, res, f)
    /\ UNCHANGED <<rc, pc, cur, lock, vis, hnd>>

FlagsDelete(key) ==
    /\ nops < MaxOpsFlags
    /\ \E res \in {hm_delete(reg, key)} : DoDelete(key, res)
    /\ UNCHANGED <<rc, pc, cur, lock, vis, hnd>>

NextFlags ==
    \/ \E key \in FlagsKeys, value \in FlagsValues : FlagsInsert(key, value)
    \/ \E key \in FlagsKeys : FlagsDelete(key)

SpecFlags == InitFlags /\ [][NextFlags]_vars

\* C26: for every bucket index i in [0, max_buckets), i mod 64 >= 31
\* included, marking bucket i used sets exactly bit (i mod 64) of flags word
\* floor(i / 64) and clearing it clears exactly that bit, no other bit of
\* any flags word changes, and is_used_bucket(i) then reads back the value
\* written; so a bit is 1 only for a bucket slot that references a record.
C26_UsedFlagBits ==
    /\ [][LET i == find_record(reg, last'.key).found_index
          IN  /\ (last'.op = "insert" /\ last'.err = "HM_OK" /\ ~last'.hit)
                 => /\ reg'.bucket_flags =
                          [reg.bucket_flags EXCEPT ![i \div 64] =
                              @ \cup {i % 64}]
                    /\ is_used_bucket(reg', i)
              /\ (last'.op = "delete" /\ last'.err = "HM_OK")
                 => /\ reg'.bucket_flags =
                          [reg.bucket_flags EXCEPT ![i \div 64] =
                              @ \ {i % 64}]
                    /\ ~is_used_bucket(reg', i)
      ]_vars
    /\ [](\A w \in 0..(reg.hdr.max_bucket_flags - 1) :
             \A n \in reg.bucket_flags[w] :
                /\ 64 * w + n < reg.hdr.max_buckets
                /\ reg.buckets[64 * w + n] # 0)

\* C27: find_free_block(required), as hm_insert calls it for a key that is
\* not present when the tail has no room, returns the offset of the first
\* freelist entry whose stored size is >= required, or not-found; when the
\* block is larger and is split, the head is returned and the re-inserted
\* tail block starts at offset + required with stored size exactly
\* block_size - required; a remainder smaller than 8 bytes, or a full
\* freelist, makes it return not-found without changing the freelist.
C27_FindFreeBlock ==
    [][(/\ last'.op = "insert" /\ ~last'.hit
        /\ last'.err \in {"HM_OK", "HM_NO_SPACE"}
        /\ reg.hdr.memory_size - reg.hdr.data_tail
              < Footprint(last'.key, last'.value))
       => LET required == Footprint(last'.key, last'.value)
              fb   == find_free_block(reg, required)
              n    == reg.hdr.num_free_blocks
              fits == {i \in 0..(n - 1) :
                          ~LtU64(RdU64(reg.mem, reg.freelist[i]),
                                 U64(required))}
          IN  IF fits = {}
              THEN fb.offset = SIZE_MAX /\ fb.reg = reg
              ELSE
              LET first  == CHOOSE i \in fits : \A j \in fits : i <= j
                  offset == reg.freelist[first]
                  block_size == RdU64(reg.mem, offset)
                  remainder  == SubU64(block_size, U64(required))
              IN  IF remainder = U64(0)
                  THEN /\ fb.offset = offset
                       /\ fb.reg.hdr.num_free_blocks = n - 1
                  ELSE IF LtU64(remainder, U64(SizeofSizeT))
                          \/ ~has_empty_free_block(reg)
                  THEN fb.offset = SIZE_MAX /\ fb.reg = reg
                  ELSE /\ fb.offset = offset
                       /\ \E j \in 0..(fb.reg.hdr.num_free_blocks - 1) :
                             fb.reg.freelist[j] = offset + required
                       /\ RdU64(fb.reg.mem, offset + required) = remainder
      ]_vars

\* C28: add_free_block, as hm_delete calls it for the record it frees,
\* either inserts a new entry and increments num_free_blocks by exactly 1,
\* or merges and leaves num_free_blocks unchanged; it merges only with an
\* entry that is in the freelist (index < num_free_blocks) and whose block
\* begins exactly where the new block ends; and after either outcome the
\* freed offset is the offset of some entry at an index < num_free_blocks
\* whose stored size covers the freed bytes.
C28_AddFreeBlock ==
    [][(last'.op = "delete" /\ last'.err = "HM_OK")
       => LET r    == find_record(reg, last'.key).r
              size == hm_get_record_size(reg.mem, r)
              n    == reg.hdr.num_free_blocks
          IN  /\ reg'.hdr.num_free_blocks \in {n, n + 1}
              /\ reg'.hdr.num_free_blocks = n =>
                    \E i \in 0..(n - 1) :
                       U64(reg.freelist[i])
                          = AddU64(U64(r), FreedBlockSize(reg, r))
              /\ \E i \in 0..(reg'.hdr.num_free_blocks - 1) :
                    /\ reg'.freelist[i] = r
                    /\ ~LtU64(RdU64(reg'.mem, r), size)
      ]_vars

(***************************************************************************)
(* The tombstone specification: three keys over two buckets, so that every *)
(* slot has been written and every key deleted within a few calls.         *)
(***************************************************************************)
TombKeys == {<<97>>, <<98>>, <<99>>}

TombValues == {<<1>>}

InitTomb ==
    /\ reg = hm_init(TombMemorySize, TombMaxBuckets, TombMaxFreeBlocks).reg
    /\ last = [op |-> "init", err |-> "HM_OK"]
    /\ nops = 0
    /\ dict = <<>>
    /\ deleted = {}
    /\ nospace = {}
    /\ rc = [ph |-> "fill", ks |-> {}, live |-> {}, nk |-> {}, fp |-> 0]
    /\ pc = [A |-> "idle", B |-> "idle"]
    /\ cur = [A |-> NoCall, B |-> NoCall]
    /\ lock = [A |-> [writer |-> FALSE, readers |-> 0],
               B |-> [writer |-> FALSE, readers |-> 0]]
    /\ vis = <<>>
    /\ hnd = InitHandles

TombInsert(key, value) ==
    /\ nops < MaxOpsTomb
    /\ \E res \in {hm_insert(reg, key, value)},
          f \in {find_record(reg, key)} : DoInsert(key, value, res, f)
    /\ UNCHANGED <<rc, pc, cur, lock, vis, hnd>>

TombDelete(key) ==
    /\ nops < MaxOpsTomb
    /\ \E res \in {hm_delete(reg, key)} : DoDelete(key, res)
    /\ UNCHANGED <<rc, pc, cur, lock, vis, hnd>>

NextTomb ==
    \/ \E key \in TombKeys, value \in TombValues : TombInsert(key, value)
    \/ \E key \in TombKeys : TombDelete(key)

SpecTomb == InitTomb /\ [][NextTomb]_vars

\* The bucket slots whose offset is 0.
ZeroSlots(rg) == {b \in 0..(rg.hdr.max_buckets - 1) : rg.buckets[b] = 0}

\* C29: the number of bucket slots whose offset is 0 never increases: a
\* delete leaves every slot's offset in place and an insert of a key that
\* is not present writes only into a slot whose offset is 0; once every
\* slot has been written, every insert of a key that is not present returns
\* NO_EMPTY_BUCKET and changes nothing.
C29_ZeroSlotsNeverReturn ==
    [][/\ Cardinality(ZeroSlots(reg')) <= Cardinality(ZeroSlots(reg))
       /\ last'.op = "delete" => reg'.buckets = reg.buckets
       /\ (last'.op = "insert" /\ ~last'.hit) =>
             \A b \in 0..(reg.hdr.max_buckets - 1) :
                reg'.buckets[b] # reg.buckets[b] => b \in ZeroSlots(reg)
       /\ (last'.op = "insert" /\ ~last'.hit /\ ZeroSlots(reg) = {}) =>
             last'.err = "HM_NO_EMPTY_BUCKET" /\ reg' = reg
      ]_vars

\* Every slot has been written, every key has been deleted so that no used
\* bit is set, and the insert just made returned NO_EMPTY_BUCKET.
C29_Witness ==
    /\ last.op = "insert" /\ last.err = "HM_NO_EMPTY_BUCKET"
    /\ ZeroSlots(reg) = {}
    /\ UsedBuckets = {}
    /\ hm_stat(reg).used_buckets = 0

(***************************************************************************)
(* The use specification: set, get, del, stat and close calls on the       *)
(* handle in the process that created it.                                  *)
(***************************************************************************)
UseOps == {"set", "get", "del", "stat"}

\* The core function the binding calls for a method of the handle.
CoreOp(op) ==
    CASE op = "set"  -> "insert"
      [] op = "get"  -> "search"
      [] op = "del"  -> "delete"
      [] op = "stat" -> "stat"

\* The outcomes of the lock call and the first access to the region that
\* a core function makes on the hashmap_t of handle h.  With a valid lock
\* and a mapped region the body runs.  After hm_destroy the lock call is
\* made on a destroyed lock and m->region is a stale pointer: the lock call
\* fails, or it succeeds and the access faults, or it succeeds and the
\* address is mapped again, so that the body runs on foreign memory.
lock_region(h) ==
    IF h.region = "mapped" /\ h.lockobj = "valid"
    THEN {[out |-> "run", stale_lock |-> FALSE, stale_region |-> FALSE]}
    ELSE {[out |-> "HM_LOCK_FAILED", stale_lock |-> TRUE,
           stale_region |-> FALSE],
          [out |-> "fault", stale_lock |-> TRUE, stale_region |-> TRUE],
          [out |-> "run", stale_lock |-> TRUE, stale_region |-> TRUE]}

\* h:set(), h:get(), h:del() or h:stat() in process p: the binding checks
\* the userdata and the arguments and calls the core function.
UseCall(p, op, key, v) ==
    /\ CanCall(p)
    /\ nops' = nops + 1
    /\ \E u \in lock_region(hnd[p]) :
       \E res \in {IF u.out = "run" /\ ~u.stale_region
                   THEN LockedBody(reg, LockCall(CoreOp(op), key, v))
                   ELSE [reg |-> reg, err |-> u.out]} :
          /\ reg' = res.reg
          /\ hnd' = [hnd EXCEPT ![p].alive = (u.out # "fault")]
          /\ last' = [op |-> op, proc |-> p, key |-> key,
                      core |-> TRUE,
                      stale_lock |-> u.stale_lock,
                      stale_region |-> u.stale_region,
                      ret |-> res.err]
    /\ UNCHANGED <<dict, deleted, nospace, rc, pc, cur, lock, vis>>

NextUse ==
    \/ \E op \in UseOps, key \in OverlapKeys :
          UseCall(Creator, op, key, ReclaimValue)
    \/ close_lua(Creator)

SpecUse == Init /\ [][NextUse]_vars

\* C30: once close has returned true on a handle, no later set, get, del or
\* stat call on that handle locks the destroyed lock or reads or writes the
\* unmapped region; such a call fails with an error and does not reach the
\* core operation.
C30_NoUseAfterDestroy ==
    [][(last'.op \in UseOps /\ nops' # nops
        /\ hnd[last'.proc].closed # 0)
       => /\ ~last'.stale_lock
          /\ ~last'.stale_region
          /\ ~last'.core
          /\ last'.ret \notin {"HM_OK", "HM_NOT_FOUND", "run", "fault"}
      ]_vars

====
